---- MODULE Spec2Model ----
(***************************************************************************)
(* fopen (configurable version): layered configuration, resolution of the  *)
(* installed candidate applications of a category, interactive selection   *)
(* and dispatch of the chosen program.                                     *)
(*                                                                         *)
(* Strings are sequences of tokens.  The characters the program inspects   *)
(* (space, newline, ":", "/", the digits) are tokens of their own; every    *)
(* other token stands for a non-empty run of characters with none of them.  *)
(***************************************************************************)
EXTENDS Integers, Sequences, FiniteSets, TLC

VARIABLES
    env,          \* os.environ: variable name -> string (absent = unset)
    installed,    \* the commands shutil.which resolves
    file_state,   \* the persisted file: "absent", "unreadable", "malformed", "json"
    file_json,    \* its JSON value when file_state = "json"
    argv_config,  \* --config given
    pc,           \* position of the run
    config,       \* config_manager.config
    stderr,       \* messages written to sys.stderr, in order
    stdout,       \* messages written to sys.stdout, in order
    target,       \* the picked entry: [kind, mime]
    options,      \* the candidate list handed to choose_app_option
    fzf_result,   \* exit status and output of the fuzzy selector run for the
                  \* application choice (status -1: it has not returned)
    picked,       \* index in options of the line/number the user chose (0: none)
    app_choice,   \* what choose_app_option returned ("none" wrapped or a command)
    launches,     \* the launch attempts of the dispatcher, in order
    collab,       \* the collaborators started and prompts shown, in order
    interrupts,   \* the waiting points at which Ctrl-C was delivered, in order
    wrote_config, \* create_default_config_file wrote the file
    available,    \* result of the last get_available_apps call (resolution runs)
    menu_input,   \* the line input() returned to the numbered menu, if it did
    exit_code     \* process exit status (-1 while running)

vars == <<env, installed, file_state, file_json, argv_config, pc, config, stderr,
          stdout, target, options, fzf_result, picked, app_choice, launches, collab,
          interrupts, wrote_config, available, menu_input, exit_code>>

----------------------------------------------------------------------------
(* Strings *)

SP == " "
NL == "\n"
Whitespace == {SP, NL}
Word(w) == <<w>>

RECURSIVE Words(_)
\* the words of ws joined by single spaces
Words(ws) ==
    IF Len(ws) = 0 THEN <<>>
    ELSE IF Len(ws) = 1 THEN <<ws[1]>>
    ELSE <<ws[1], SP>> \o Words(Tail(ws))

\* str.startswith
StartsWith(s, p) == Len(p) <= Len(s) /\ SubSeq(s, 1, Len(p)) = p

\* str.endswith
EndsWith(s, p) == Len(p) <= Len(s) /\ SubSeq(s, Len(s) - Len(p) + 1, Len(s)) = p

RECURSIVE LStrip(_)
LStrip(s) == IF Len(s) > 0 /\ s[1] \in Whitespace THEN LStrip(Tail(s)) ELSE s

RECURSIVE RStrip(_)
RStrip(s) ==
    IF Len(s) > 0 /\ s[Len(s)] \in Whitespace THEN RStrip(SubSeq(s, 1, Len(s) - 1)) ELSE s

\* str.strip
Strip(s) == RStrip(LStrip(s))

\* str.find: the first index at which sep occurs in s, 0 when it does not
Find(s, sep) ==
    LET hits == {i \in 1..(Len(s) - Len(sep) + 1) :
                    SubSeq(s, i, i + Len(sep) - 1) = sep}
    IN IF hits = {} THEN 0 ELSE CHOOSE i \in hits : \A j \in hits : i <= j

RECURSIVE Split(_, _)
\* str.split(sep)
Split(s, sep) ==
    LET i == Find(s, sep)
    IN IF i = 0 THEN <<s>>
       ELSE <<SubSeq(s, 1, i - 1)>> \o Split(SubSeq(s, i + Len(sep), Len(s)), sep)

----------------------------------------------------------------------------
(* JSON values: a mapping, a list of application descriptors, a list of    *)
(* strings, a string, a boolean.                                           *)

JMap(f) == [kind |-> "map", kids |-> f]
JApps(l) == [kind |-> "apps", apps |-> l]
JStrs(l) == [kind |-> "strs", strs |-> l]
JStr(s) == [kind |-> "str", str |-> s]
JBool(b) == [kind |-> "bool", bool |-> b]

IsDict(v) == v.kind = "map"

\* dict.get(key, default) on a descriptor
DictGet(d, key, default) == IF key \in DOMAIN d THEN d[key] ELSE default

App(c, l, t, p) == [command |-> c, label |-> l, terminal |-> t, priority |-> p]

nvim == Word("nvim")
vim == Word("vim")
code == Word("code")
gedit == Word("gedit")
kate == Word("kate")
nautilus == Word("nautilus")
dolphin == Word("dolphin")
thunar == Word("thunar")
loupe == Word("loupe")
eog == Word("eog")
feh == Word("feh")
okular == Word("okular")
evince == Word("evince")
zathura == Word("zathura")
fzf == Word("fzf")
xdg_open == Word("xdg-open")
cd == Word("cd")

Mime(a, b) == <<a, "/", b>>
MimePrefix(a) == <<a, "/">>

_get_default_config ==
    JMap([
      applications |-> JMap([
        text_editors |-> JApps(<<
            App(nvim, Word("NeoVim"), TRUE, 1),
            App(vim, Word("Vim"), TRUE, 2),
            App(code, Words(<<"Visual", "Studio", "Code">>), FALSE, 3),
            App(gedit, Words(<<"Text", "Editor", "(GTK)">>), FALSE, 4),
            App(kate, Words(<<"Kate", "Editor">>), FALSE, 5) >>),
        file_managers |-> JApps(<<
            App(nautilus, Words(<<"Files", "(GNOME)">>), FALSE, 1),
            App(dolphin, Words(<<"Dolphin", "(KDE)">>), FALSE, 2),
            App(thunar, Words(<<"Thunar", "(XFCE)">>), FALSE, 3) >>),
        image_viewers |-> JApps(<<
            App(loupe, Word("Loupe"), FALSE, 1),
            App(eog, Words(<<"Eye", "of", "GNOME">>), FALSE, 2),
            App(feh, Word("Feh"), FALSE, 3) >>),
        pdf_viewers |-> JApps(<<
            App(okular, Word("Okular"), FALSE, 1),
            App(evince, Word("Evince"), FALSE, 2),
            App(zathura, Word("Zathura"), TRUE, 3) >>) ]),
      file_types |-> JMap([
        text |-> JStrs(<< MimePrefix("text"), Mime("application", "json"),
                          Mime("application", "xml"),
                          Mime("application", "javascript"),
                          Mime("application", "x-yaml"),
                          Mime("application", "x-shellscript"),
                          Mime("inode", "x-empty") >>),
        images |-> JStrs(<< MimePrefix("image") >>),
        pdf |-> JStrs(<< Mime("application", "pdf") >>) ]),
      search |-> JMap([
        excluded_dirs |-> JStrs(<< Word(".git"), Word("node_modules"),
                                   Word(".vscode"), Word(".idea"), Word("dist"),
                                   Word("build"), Word("target"), Word(".cache") >>),
        use_fd_if_available |-> JBool(TRUE),
        follow_symlinks |-> JBool(TRUE) ]),
      interface |-> JMap([
        use_fzf_for_app_selection |-> JBool(TRUE),
        fzf_height |-> JStr(Word("90%")),
        preview_enabled |-> JBool(TRUE) ])
    ])

----------------------------------------------------------------------------
(* FopenConfig *)

\* the (section, key) each environment variable targets, in dict order
env_mappings ==
    << [var |-> "FOPEN_TEXT_EDITOR", section |-> "applications", key |-> "text_editors"],
       [var |-> "FOPEN_FILE_MANAGER", section |-> "applications", key |-> "file_managers"],
       [var |-> "FOPEN_IMAGE_VIEWER", section |-> "applications", key |-> "image_viewers"],
       [var |-> "FOPEN_PDF_VIEWER", section |-> "applications", key |-> "pdf_viewers"],
       [var |-> "FOPEN_FZF_HEIGHT", section |-> "interface", key |-> "fzf_height"] >>

\* truthiness of os.environ.get(var): set and not empty
EnvSet(e, var) == var \in DOMAIN e /\ e[var] # <<>>

\* config[section][key] = v
SetKey(cfg, section, key, v) ==
    JMap([cfg.kids EXCEPT ![section] = JMap([cfg.kids[section].kids EXCEPT ![key] = v])])

\* the descriptor an application override adds
app_entry(value) == App(value, <<"Custom", SP>> \o value, FALSE, 0)

\* one iteration of the loop over env_mappings
apply_env_mapping(cfg, e, m) ==
    IF EnvSet(e, m.var) /\ m.section = "applications"
    THEN SetKey(cfg, m.section, m.key,
                JApps(<<app_entry(e[m.var])>> \o cfg.kids[m.section].kids[m.key].apps))
    ELSE IF EnvSet(e, m.var)
    THEN SetKey(cfg, m.section, m.key, JStr(e[m.var]))
    ELSE cfg

RECURSIVE apply_env_mappings(_, _, _)
apply_env_mappings(cfg, e, i) ==
    IF i > Len(env_mappings) THEN cfg
    ELSE apply_env_mappings(apply_env_mapping(cfg, e, env_mappings[i]), e, i + 1)

_apply_env_overrides(cfg, e) ==
    LET c1 == apply_env_mappings(cfg, e, 1)
    IN IF EnvSet(e, "FOPEN_EXCLUDE_DIRS")
       THEN SetKey(c1, "search", "excluded_dirs",
                   JStrs(Split(e["FOPEN_EXCLUDE_DIRS"], <<":">>)))
       ELSE c1

\* a shallow merge (dict.update): every key of override replaces the base value
merge_config_shallow(base, override) ==
    JMap([k \in DOMAIN base.kids \cup DOMAIN override.kids |->
            IF k \in DOMAIN override.kids THEN override.kids[k] ELSE base.kids[k]])

RECURSIVE _merge_config(_, _)
\* both arguments are mappings; the keys of override are visited one by one, and
\* each visit touches only its own key, so the result is given key by key
_merge_config(base, override) ==
    JMap([k \in DOMAIN base.kids \cup DOMAIN override.kids |->
            IF k \notin DOMAIN override.kids THEN base.kids[k]
            ELSE IF k \in DOMAIN base.kids /\ IsDict(base.kids[k])
                    /\ IsDict(override.kids[k])
                 THEN _merge_config(base.kids[k], override.kids[k])
                 ELSE override.kids[k]])

\* `except Exception` catches every exception class but KeyboardInterrupt
IsException(exc) == exc \notin {"none", "KeyboardInterrupt"}

\* what the try block of _load_config raises: open() fails, json.load fails, or
\* override.items() fails because the top-level value is no dict
load_exception(fstate, fjson) ==
    IF fstate = "unreadable" THEN "OSError"
    ELSE IF fstate = "malformed" THEN "JSONDecodeError"
    ELSE IF fstate = "json" /\ ~IsDict(fjson) THEN "AttributeError"
    ELSE "none"

\* _load_config whose except clause falls back to the bare defaults
load_config_bare_defaults(e, fstate, fjson) ==
    LET c0 == _apply_env_overrides(_get_default_config, e)
        exc == IF fstate = "absent" THEN "none" ELSE load_exception(fstate, fjson)
    IN IF exc = "none" /\ fstate # "absent"
       THEN [config |-> _merge_config(c0, fjson), warned |-> FALSE, raised |-> FALSE]
       ELSE IF exc = "none"
       THEN [config |-> c0, warned |-> FALSE, raised |-> FALSE]
       ELSE [config |-> _get_default_config, warned |-> TRUE, raised |-> FALSE]

\* FopenConfig._load_config: [config, warned, raised]
_load_config(e, fstate, fjson) ==
    LET c0 == _apply_env_overrides(_get_default_config, e)
        exc == IF fstate = "absent" THEN "none" ELSE load_exception(fstate, fjson)
    IN IF fstate = "absent" THEN [config |-> c0, warned |-> FALSE, raised |-> FALSE]
       ELSE IF exc = "none"
       THEN [config |-> _merge_config(c0, fjson), warned |-> FALSE, raised |-> FALSE]
       ELSE IF IsException(exc)
       THEN [config |-> c0, warned |-> TRUE, raised |-> FALSE]
       ELSE [config |-> c0, warned |-> FALSE, raised |-> TRUE]

check_command(inst, cmd) == cmd \in inst

DefaultPriority == 999

sort_key(app) == DictGet(app, "priority", DefaultPriority)

\* insert_sorted placing x before the elements of equal key (an unstable sort)
insert_sorted_unstable(l, x) ==
    LET n == Cardinality({i \in 1..Len(l) : sort_key(l[i]) < sort_key(x)})
    IN SubSeq(l, 1, n) \o <<x>> \o SubSeq(l, n + 1, Len(l))

\* the place of x in an ascending list: after every element whose key is not greater
insert_sorted(l, x) ==
    LET n == Cardinality({i \in 1..Len(l) : sort_key(l[i]) <= sort_key(x)})
    IN SubSeq(l, 1, n) \o <<x>> \o SubSeq(l, n + 1, Len(l))

RECURSIVE stable_sort(_, _)
\* list.sort(key=...): ascending and stable; acc is sorted, l is what is left
stable_sort(acc, l) ==
    IF Len(l) = 0 THEN acc ELSE stable_sort(insert_sorted(acc, l[1]), Tail(l))

RECURSIVE filter_available(_, _)
filter_available(inst, apps) ==
    IF Len(apps) = 0 THEN <<>>
    ELSE (IF check_command(inst, apps[1].command) THEN <<apps[1]>> ELSE <<>>)
         \o filter_available(inst, Tail(apps))

\* FopenConfig.get_available_apps
get_available_apps(cfg, inst, category) ==
    LET apps == IF category \in DOMAIN cfg.kids.applications.kids
                THEN cfg.kids.applications.kids[category].apps
                ELSE <<>>
    IN stable_sort(<<>>, filter_available(inst, apps))

----------------------------------------------------------------------------
(* Selection and dispatch *)

Msg(m, a) == [msg |-> m, arg |-> a]

\* truthiness of a configuration value
Truthy(v) ==
    IF v.kind = "bool" THEN v.bool
    ELSE IF v.kind = "str" THEN v.str # <<>>
    ELSE IF v.kind = "apps" THEN v.apps # <<>>
    ELSE IF v.kind = "strs" THEN v.strs # <<>>
    ELSE DOMAIN v.kids # {}

\* the result of choose_app_option: None, or a command
NoChoice == [some |-> FALSE, cmd |-> <<>>]
Choice(c) == [some |-> TRUE, cmd |-> c]

\* `if not app_choice`
Falsy(choice) == ~choice.some \/ choice.cmd = <<>>

SEP == <<SP, ":", ":", SP>>

\* the line choose_app_option gives the fuzzy selector for one candidate
format_option(app) == app.command \o SEP \o app.label

\* parse_selection without its `return None`: no selection falls through to the menu
parse_selection_fallthrough(returncode, out) ==
    LET selected == Strip(out)
    IN IF returncode = 0 /\ selected # <<>>
       THEN [next |-> "return", choice |-> Choice(Split(selected, SEP)[1])]
       ELSE [next |-> "menu", choice |-> NoChoice]

\* what choose_app_option does when the selector has exited: it returns the
\* command token of the chosen line, or None; it never goes on to the menu
parse_selection(returncode, out) ==
    LET selected == Strip(out)
    IN IF returncode = 0 /\ selected # <<>>
       THEN [next |-> "return", choice |-> Choice(Split(selected, SEP)[1])]
       ELSE [next |-> "return", choice |-> NoChoice]

\* where choose_app_option waits first: the fuzzy selector or the numbered menu
first_prompt(cfg, inst) ==
    IF Truthy(cfg.kids.interface.kids.use_fzf_for_app_selection)
       /\ check_command(inst, fzf)
    THEN "fzf_app" ELSE "menu"

\* choose_entry without the test for an empty list
choose_entry_unguarded(opts, cfg, inst) == first_prompt(cfg, inst)

\* the start of choose_app_option: it returns at once on an empty list, and
\* otherwise waits at its first prompt
choose_entry(opts, cfg, inst) ==
    IF opts = <<>> THEN "return" ELSE first_prompt(cfg, inst)

Digits == <<"0", "1", "2", "3", "4", "5", "6", "7", "8", "9">>

\* the character U+00B2 (superscript two): a digit to str.isdigit, no decimal
\* digit to int
SuperscriptTwo == "sup2"

\* the string is made of the decimal digits 0-9
IsDecimal(s) == \A i \in 1..Len(s) : \E d \in 1..10 : Digits[d] = s[i]

\* str.isdigit
IsDigit(s) ==
    Len(s) > 0 /\ \A i \in 1..Len(s) : IsDecimal(<<s[i]>>) \/ s[i] = SuperscriptTwo

RECURSIVE ToInt(_)
\* int(s) of a string of digits
ToInt(s) ==
    IF Len(s) = 0 THEN 0
    ELSE 10 * ToInt(SubSeq(s, 1, Len(s) - 1))
         + (CHOOSE d \in 0..9 : Digits[d + 1] = s[Len(s)])

\* what the numbered menu makes of the line read: the command it returns, or
\* the exception int raises (only KeyboardInterrupt and EOFError are caught)
parse_menu_choice(opts, line) ==
    LET choice == Strip(line)
        idx == ToInt(choice) - 1
    IN IF ~IsDigit(choice) THEN [exc |-> "none", choice |-> NoChoice]
       ELSE IF ~IsDecimal(choice) THEN [exc |-> "ValueError", choice |-> NoChoice]
       ELSE IF 0 <= idx /\ idx < Len(opts)
       THEN [exc |-> "none", choice |-> Choice(opts[idx + 1].command)]
       ELSE [exc |-> "none", choice |-> NoChoice]

\* a launch attempt of the dispatcher
Attempt(argv, mode, started) == [argv |-> argv, mode |-> mode, started |-> started]

\* the outcomes of starting a program: started by the first Popen (in its own
\* process group), started by the second Popen after the first one raised, or not
\* started at all (the exception of the last Popen propagates)
PopenOutcomes == {"setpgrp", "plain", "fail"}

NoLaunch == [launches |-> <<>>, exc |-> "none", wait |-> FALSE, out |-> <<>>]

\* run_detached(cmd)
run_detached(cmd, o) ==
    [launches |-> <<Attempt(cmd, "detached", o # "fail")>>,
     exc |-> IF o = "fail" THEN "FileNotFoundError" ELSE "none",
     wait |-> FALSE, out |-> <<>>]

\* subprocess.run(cmd): blocks until the child exits
run_attached(cmd, o) ==
    [launches |-> <<Attempt(cmd, "attached", o # "fail")>>,
     exc |-> IF o = "fail" THEN "FileNotFoundError" ELSE "none",
     wait |-> o # "fail", out |-> <<>>]

\* the first candidate whose command is the chosen one (0: none)
find_app(opts, cmd) ==
    LET hits == {i \in 1..Len(opts) : opts[i].command = cmd}
    IN IF hits = {} THEN 0 ELSE CHOOSE i \in hits : \A j \in hits : i <= j

DD == Word("--")

\* handle_file, from the return of choose_app_option
dispatch_file(opts, choice, path, o) ==
    LET i == find_app(opts, choice.cmd)
    IN IF Falsy(choice)
       THEN [NoLaunch EXCEPT !.out = <<Msg("Cancelled.", <<>>)>>]
       ELSE IF i = 0 THEN NoLaunch
       ELSE IF DictGet(opts[i], "terminal", FALSE)
       THEN run_attached(<<choice.cmd, DD, path>>, o)
       ELSE IF choice.cmd = code
       THEN run_detached(<<choice.cmd, Word("--reuse-window"), DD, path>>, o)
       ELSE run_detached(<<choice.cmd, DD, path>>, o)

\* dispatch_directory without the branch for cd: cd is looked up and run like
\* any other candidate
dispatch_directory_cd_as_program(opts, choice, path, o) ==
    LET i == find_app(opts, choice.cmd)
    IN IF Falsy(choice) THEN NoLaunch
       ELSE IF choice.cmd = code THEN run_detached(<<code, path>>, o)
       ELSE IF i = 0 THEN NoLaunch
       ELSE IF DictGet(opts[i], "terminal", FALSE)
       THEN run_attached(<<choice.cmd, path>>, o)
       ELSE run_detached(<<choice.cmd, path>>, o)

\* handle_directory, from the return of choose_app_option
dispatch_directory(opts, choice, path, o) ==
    LET i == find_app(opts, choice.cmd)
    IN IF Falsy(choice) THEN NoLaunch
       ELSE IF choice.cmd = cd THEN [NoLaunch EXCEPT !.out = <<Msg("cd", path)>>]
       ELSE IF choice.cmd = code THEN run_detached(<<code, path>>, o)
       ELSE IF i = 0 THEN NoLaunch
       ELSE IF DictGet(opts[i], "terminal", FALSE)
       THEN run_attached(<<choice.cmd, path>>, o)
       ELSE run_detached(<<choice.cmd, path>>, o)

\* what the caller of choose_app_option does with its return; a caller that is
\* no handler launches nothing
dispatch(tgt, opts, choice, o) ==
    IF tgt.kind = "dir" THEN dispatch_directory(opts, choice, tgt.path, o)
    ELSE IF tgt.kind = "file" THEN dispatch_file(opts, choice, tgt.path, o)
    ELSE NoLaunch

cd_option == App(cd, Words(<<"Open", "in", "terminal">>), TRUE, 0)

\* the candidates handle_directory offers
directory_options(cfg, inst) ==
    <<cd_option>> \o get_available_apps(cfg, inst, "file_managers")
                  \o get_available_apps(cfg, inst, "text_editors")

StrsOf(cfg, key) == cfg.kids.file_types.kids[key].strs
InList(x, l) == \E i \in 1..Len(l) : l[i] = x

\* the category handle_file resolves for a MIME type ("none": generic opener)
file_category(cfg, mime) ==
    IF \E i \in 1..Len(StrsOf(cfg, "text")) :
          /\ EndsWith(StrsOf(cfg, "text")[i], <<"/">>)
          /\ (StartsWith(mime, StrsOf(cfg, "text")[i]) \/ InList(mime, StrsOf(cfg, "text")))
    THEN "text_editors"
    ELSE IF \E i \in 1..Len(StrsOf(cfg, "images")) :
               StartsWith(mime, StrsOf(cfg, "images")[i])
    THEN "image_viewers"
    ELSE IF InList(mime, StrsOf(cfg, "pdf")) THEN "pdf_viewers"
    ELSE "none"

\* the candidates handle_file resolves (empty: generic opener)
file_options(cfg, inst, mime) ==
    IF file_category(cfg, mime) = "none" THEN <<>>
    ELSE get_available_apps(cfg, inst, file_category(cfg, mime))

\* the handlers of main's try block: the exit status and the message
main_except(exc) ==
    IF exc = "KeyboardInterrupt"
    THEN [code |-> 130, out |-> <<Msg("Cancelled.", <<>>)>>, err |-> <<>>]
    ELSE IF IsException(exc)
    THEN [code |-> 1, out |-> <<>>, err |-> <<Msg("Error", <<>>)>>]
    ELSE [code |-> 0, out |-> <<>>, err |-> <<>>]

----------------------------------------------------------------------------
(* The environments, installations, persisted files and inputs explored *)

hx == Word("hx")

AppVars == {"FOPEN_TEXT_EDITOR", "FOPEN_FILE_MANAGER", "FOPEN_IMAGE_VIEWER",
            "FOPEN_PDF_VIEWER"}

\* the commands each application override is tried with
OverrideCmds(var) == IF var = "FOPEN_TEXT_EDITOR" THEN {nvim, hx} ELSE {hx}

\* at most this many application overrides are set at once
MaxOverrides == 1

NoEnv == [v \in {} |-> <<>>]

EnvChoices ==
    UNION {{e \in [S -> {nvim, hx}] : \A v \in S : e[v] \in OverrideCmds(v)} :
             S \in {T \in SUBSET AppVars : Cardinality(T) <= MaxOverrides}}
    \cup {[v \in {"FOPEN_FZF_HEIGHT", "FOPEN_EXCLUDE_DIRS"} |->
              IF v = "FOPEN_FZF_HEIGHT" THEN Word("50%") ELSE <<".git", ":", "dist">>],
          [v \in {"FOPEN_TEXT_EDITOR"} |-> <<>>]}

InstallPool == {fzf, nvim, code, nautilus, zathura}

Categories == {"text_editors", "file_managers", "image_viewers", "pdf_viewers"}

File(st, j) == [state |-> st, json |-> j]

NoJson == JMap(NoEnv)

\* {"applications": {"text_editors": [...]}}: the last entry has neither a
\* priority nor a terminal flag
FileEditors ==
    JMap([applications |-> JMap([text_editors |-> JApps(<<
        App(hx, Word("Helix"), TRUE, 1),
        App(code, Word("Code"), TRUE, 2),
        [command |-> nvim, label |-> Words(<<"Neovim", "Qt">>)] >>)])])

\* {"interface": {"use_fzf_for_app_selection": false}}
FileNoFzf == JMap([interface |-> JMap([use_fzf_for_app_selection |-> JBool(FALSE)])])

\* a file whose top-level value is a list
FileTopList == JApps(<<App(hx, Word("Helix"), TRUE, 1)>>)

\* {"file_types": {"text": ["application/json"]}}: a text list of one exact
\* type and no prefix
FileTextExact == JMap([file_types |-> JMap([text |-> JStrs(<<Mime("application", "json")>>)])])

FileChoices ==
    {File("absent", NoJson), File("unreadable", NoJson), File("malformed", NoJson),
     File("json", FileTopList), File("json", NoJson), File("json", FileEditors),
     File("json", FileNoFzf), File("json", FileTextExact)}

RawPaths == {<<>>, <<"my", SP, "docs">>}

Mimes == {Mime("text", "plain"), Mime("application", "json"), Mime("image", "png"),
          Mime("application", "pdf"), Mime("application", "zip")}

MenuLines == {<<>>, <<"0">>, <<"1">>, <<SP, "2", NL>>, <<"3">>, <<"9">>, <<"1", "0">>,
              <<"-", "1">>, <<"x">>, <<SuperscriptTwo>>}

NoResult == [returncode |-> -1, out |-> <<>>]
NoTarget == [kind |-> "none", path |-> <<>>, mime |-> <<>>]
NoAvailable == [category |-> "", apps |-> <<>>]
NoInput == [read |-> FALSE, line |-> <<>>]

InitRun ==
    /\ pc = "import"
    /\ config = NoJson
    /\ stderr = <<>>
    /\ stdout = <<>>
    /\ target = NoTarget
    /\ options = <<>>
    /\ fzf_result = NoResult
    /\ picked = 0
    /\ app_choice = NoChoice
    /\ launches = <<>>
    /\ collab = <<>>
    /\ interrupts = <<>>
    /\ wrote_config = FALSE
    /\ available = NoAvailable
    /\ menu_input = NoInput
    /\ exit_code = -1

Init ==
    /\ env \in EnvChoices
    /\ installed \in SUBSET InstallPool
    /\ \E f \in FileChoices : file_state = f.state /\ file_json = f.json
    /\ argv_config \in BOOLEAN
    /\ InitRun

----------------------------------------------------------------------------
(* The run *)

inputs == <<env, installed, file_state, file_json, argv_config>>

\* the process ends with this exit status
Exit(c) == pc' = "exited" /\ exit_code' = c

\* the rest of main after a handler produced r: an exception reaches main's
\* handlers, an attached child is waited for, otherwise main returns
Finish(r) ==
    /\ launches' = launches \o r.launches
    /\ stdout' = stdout \o r.out \o main_except(r.exc).out
    /\ stderr' = stderr \o main_except(r.exc).err
    /\ IF r.exc # "none" THEN Exit(main_except(r.exc).code)
       ELSE IF r.wait THEN pc' = "running" /\ UNCHANGED exit_code
       ELSE Exit(0)

\* module import: config_manager = FopenConfig()
LoadConfig ==
    /\ pc = "import"
    /\ LET r == _load_config(env, file_state, file_json)
       IN /\ config' = r.config
          /\ stderr' = IF r.warned
                       THEN stderr \o <<Msg("Warning: Could not load config file", <<>>)>>
                       ELSE stderr
          /\ IF r.raised THEN Exit(1) ELSE pc' = "main" /\ UNCHANGED exit_code
    /\ UNCHANGED <<inputs, stdout, target, options, fzf_result, picked, app_choice,
                   launches,
                   collab, interrupts, wrote_config, available, menu_input>>

\* main_branch with the fzf check ahead of the --config branch
main_branch_fzf_first(flag, inst) ==
    IF ~check_command(inst, fzf) THEN "nofzf"
    ELSE IF flag THEN "config"
    ELSE "pick"

\* what main does first: write the default configuration and return, exit
\* because fzf is missing, or go on to the picker
main_branch(flag, inst) ==
    IF flag THEN "config"
    ELSE IF ~check_command(inst, fzf) THEN "nofzf"
    ELSE "pick"

\* main, up to the wait for the file picker
Main ==
    /\ pc = "main"
    /\ IF main_branch(argv_config, installed) = "config"
       THEN /\ wrote_config' = TRUE
            /\ stdout' = stdout \o <<Msg("Created default config at", <<>>)>>
            /\ Exit(0)
            /\ UNCHANGED <<stderr, collab>>
       ELSE IF main_branch(argv_config, installed) = "nofzf"
       THEN /\ stderr' = stderr \o <<Msg("Error: fzf is required but not found in PATH", <<>>)>>
            /\ Exit(1)
            /\ UNCHANGED <<stdout, collab, wrote_config>>
       ELSE /\ collab' = collab \o <<"find", "fzf_picker">>
            /\ pc' = "picking"
            /\ UNCHANGED <<stdout, stderr, wrote_config, exit_code>>
    /\ UNCHANGED <<inputs, config, target, options, fzf_result, picked, app_choice,
                   launches,
                   interrupts, available, menu_input>>

\* Ctrl-C while main waits in fzf_process.communicate()
PickerInterrupt ==
    /\ pc = "picking"
    /\ interrupts' = interrupts \o <<"picking">>
    /\ Finish([NoLaunch EXCEPT !.exc = "KeyboardInterrupt"])
    /\ UNCHANGED <<inputs, config, target, options, fzf_result, picked, app_choice,
                   collab,
                   wrote_config, available, menu_input>>

\* the picker returns raw; main strips it and runs handle_directory or handle_file up
\* to the first prompt, or to the end when the generic opener is used
Picker(raw, isdir, mime, o) ==
    /\ pc = "picking"
    /\ LET selected_file == Strip(raw \o <<NL>>)
           opts == IF isdir THEN directory_options(config, installed)
                   ELSE file_options(config, installed, mime)
       IN IF selected_file = <<>>
          THEN /\ Finish(NoLaunch)
               /\ UNCHANGED <<target, options, collab>>
          ELSE /\ target' = [kind |-> IF isdir THEN "dir" ELSE "file",
                             path |-> selected_file,
                             mime |-> IF isdir THEN <<>> ELSE mime]
               /\ IF opts = <<>>
                  THEN /\ Finish(run_detached(<<xdg_open, DD, selected_file>>, o))
                       /\ collab' = collab \o <<"file">>
                       /\ UNCHANGED options
                  ELSE /\ options' = opts
                       /\ collab' = collab \o (IF isdir THEN <<>> ELSE <<"file">>)
                                           \o <<first_prompt(config, installed)>>
                       /\ pc' = first_prompt(config, installed)
                       /\ UNCHANGED <<launches, stdout, stderr, exit_code>>
    /\ UNCHANGED <<inputs, config, fzf_result, picked, app_choice, interrupts,
                   wrote_config, available, menu_input>>

\* the fuzzy selector exits with a status and with line k of its input (k = 0:
\* with no output); choose_app_option returns and the handler dispatches
FzfApp(k, returncode, o) ==
    /\ pc = "fzf_app"
    /\ k \in 0..Len(options)
    /\ LET out == IF k = 0 THEN <<>> ELSE format_option(options[k]) \o <<NL>>
           r == parse_selection(returncode, out)
       IN /\ fzf_result' = [returncode |-> returncode, out |-> out]
          /\ picked' = IF returncode = 0 THEN k ELSE 0
          /\ IF r.next = "menu"
             THEN /\ collab' = collab \o <<"menu">>
                  /\ pc' = "menu"
                  /\ UNCHANGED <<app_choice, launches, stdout, stderr, exit_code>>
             ELSE /\ app_choice' = r.choice
                  /\ Finish(dispatch(target, options, r.choice, o))
                  /\ UNCHANGED collab
    /\ UNCHANGED <<inputs, config, target, options, interrupts, wrote_config,
                   available, menu_input>>

\* subprocess.run of the fuzzy selector raises: the bare except swallows it and
\* choose_app_option goes on to print the numbered menu and read a line
FzfAppRaises(exc) ==
    /\ pc = "fzf_app"
    /\ interrupts' = IF exc = "KeyboardInterrupt"
                     THEN interrupts \o <<"fzf_app">> ELSE interrupts
    /\ collab' = collab \o <<"menu">>
    /\ pc' = "menu"
    /\ UNCHANGED <<inputs, config, stderr, stdout, target, options, fzf_result, picked,
                   app_choice, launches, wrote_config, available, menu_input, exit_code>>

\* input() returns line
Menu(line, o) ==
    /\ pc = "menu"
    /\ menu_input' = [read |-> TRUE, line |-> line]
    /\ LET r == parse_menu_choice(options, line)
       IN /\ picked' = IF r.choice.some THEN ToInt(Strip(line)) ELSE 0
          /\ app_choice' = r.choice
          /\ IF r.exc # "none"
             THEN Finish([NoLaunch EXCEPT !.exc = r.exc])
             ELSE Finish(dispatch(target, options, r.choice, o))
    /\ UNCHANGED <<inputs, config, target, options, fzf_result, collab, interrupts,
                   wrote_config, available>>

\* input() raises KeyboardInterrupt or EOFError: choose_app_option returns None
MenuRaises(exc) ==
    /\ pc = "menu"
    /\ interrupts' = IF exc = "KeyboardInterrupt"
                     THEN interrupts \o <<"menu">> ELSE interrupts
    /\ app_choice' = NoChoice
    /\ Finish(dispatch(target, options, NoChoice, "setpgrp"))
    /\ UNCHANGED <<inputs, config, target, options, fzf_result, picked, collab,
                   wrote_config,
                   available, menu_input>>

\* the attached child exits and subprocess.run returns
ChildExits ==
    /\ pc = "running"
    /\ Exit(0)
    /\ UNCHANGED <<inputs, config, stderr, stdout, target, options, fzf_result, picked,
                   app_choice, launches, collab, interrupts, wrote_config, available, menu_input>>

\* Ctrl-C while subprocess.run waits for the attached child
ChildInterrupt ==
    /\ pc = "running"
    /\ interrupts' = interrupts \o <<"running">>
    /\ Finish([NoLaunch EXCEPT !.exc = "KeyboardInterrupt"])
    /\ UNCHANGED <<inputs, config, target, options, fzf_result, picked, app_choice,
                   collab,
                   wrote_config, available, menu_input>>

Next ==
    \/ LoadConfig
    \/ Main
    \/ PickerInterrupt
    \/ \E raw \in RawPaths, isdir \in BOOLEAN, mime \in Mimes, o \in PopenOutcomes :
          Picker(raw, isdir, mime, o)
    \/ \E k \in 0..Len(options), returncode \in {0, 1, 130}, o \in PopenOutcomes :
          FzfApp(k, returncode, o)
    \/ \E exc \in {"KeyboardInterrupt", "OSError"} : FzfAppRaises(exc)
    \/ \E line \in MenuLines, o \in PopenOutcomes : Menu(line, o)
    \/ \E exc \in {"KeyboardInterrupt", "EOFError"} : MenuRaises(exc)
    \/ ChildExits
    \/ ChildInterrupt

Spec == Init /\ [][Next]_vars

----------------------------------------------------------------------------
(* Resolution runs: the configuration is loaded and categories are resolved, *)
(* over generated descriptor lists and files that change the shape of a key  *)

\* the longest descriptor list a generated file holds
MaxFileApps == 3

\* the largest small priority of a generated descriptor
MaxPrio == 1

GenCmds == {hx, vim}

\* 0 stands for a descriptor without a priority
GenPrios == 0..MaxPrio \cup {DefaultPriority + 1}

\* the i-th descriptor of a generated list: its label tells its place
GenApp(i, c, p) ==
    IF p = 0
    THEN [command |-> c, label |-> <<"app", SP, Digits[i + 1]>>, terminal |-> FALSE]
    ELSE App(c, <<"app", SP, Digits[i + 1]>>, FALSE, p)

GenLists ==
    UNION {{[i \in 1..n |-> GenApp(i, f[i][1], f[i][2])] :
              f \in [1..n -> GenCmds \X GenPrios]} : n \in 0..MaxFileApps}

\* {"applications": {"text_editors": l}}
FileWithEditors(l) == JMap([applications |-> JMap([text_editors |-> JApps(l)])])

\* files whose values differ in kind from the values they meet
ShapeFiles ==
    { JMap([search |-> JStr(Word("off"))]),
      JMap([interface |-> JMap([fzf_height |-> JMap([lines |-> JStr(Word("20"))])])]),
      JMap([extra |-> JMap([note |-> JStr(Word("x"))]),
            file_types |-> JMap([pdf |-> JStrs(<<>>)])]),
      JMap([applications |-> JMap([fonts |-> JApps(<<App(hx, Word("Helix"), TRUE, 1)>>),
                                   pdf_viewers |-> JApps(<<>>)])]) }

InitConfig ==
    /\ \/ /\ env = NoEnv
          /\ installed \in SUBSET GenCmds
          /\ file_state = "json"
          /\ file_json \in {FileWithEditors(l) : l \in GenLists}
       \/ /\ env \in EnvChoices
          /\ installed \in SUBSET {nvim, vim, hx}
          /\ \E f \in FileChoices \cup {File("json", j) : j \in ShapeFiles} :
                file_state = f.state /\ file_json = f.json
    /\ argv_config = FALSE
    /\ InitRun

\* config_manager.get_available_apps(category)
Resolve(category) ==
    /\ pc = "main"
    /\ available' = [category |-> category,
                     apps |-> get_available_apps(config, installed, category)]
    /\ UNCHANGED <<inputs, pc, config, stderr, stdout, target, options, fzf_result,
                   picked,
                   app_choice, launches, collab, interrupts, wrote_config, menu_input,
                   exit_code>>

NextConfig ==
    \/ LoadConfig
    \/ \E c \in Categories \cup {"fonts", "players"} : Resolve(c)

SpecConfig == InitConfig /\ [][NextConfig]_vars

----------------------------------------------------------------------------
(* Selection runs: a category is resolved from a generated file and handed  *)
(* to choose_app_option, over commands and labels that hold the separator   *)
(* of the selector lines, whitespace at their ends, or nothing at all       *)

\* the longest descriptor list of a generated file of the selection runs
MaxChooseApps == 2

\* nvim, a command holding ' :: ', and a command starting with a space
OddCmds == {nvim, <<"my", SP, ":", ":", SP, "ed">>, <<SP, "vi">>}

\* a plain label, an empty label, and a label holding ' :: ' and ending in a space
OddLabels == {Word("Editor"), <<>>, <<"a", SP, ":", ":", SP, "b", SP>>}

OddLists ==
    UNION {{[i \in 1..n |-> App(f[i][1], f[i][2], FALSE, i)] :
              f \in [1..n -> OddCmds \X OddLabels]} : n \in 0..MaxChooseApps}

\* {"applications": {"text_editors": l}, "interface": {"use_fzf_for_app_selection": b}}
FileForChoice(l, b) ==
    JMap([applications |-> JMap([text_editors |-> JApps(l)]),
          interface |-> JMap([use_fzf_for_app_selection |-> JBool(b)])])

InitChoose ==
    /\ env = NoEnv
    /\ \E s \in SUBSET OddCmds : installed = s \cup {fzf}
    /\ file_state = "json"
    /\ file_json \in {FileForChoice(l, b) : l \in OddLists, b \in BOOLEAN}
    /\ argv_config = FALSE
    /\ InitRun

\* choose_app_option(config_manager.get_available_apps(category)), up to its
\* return on an empty list or to its first prompt
ChooseCall(category) ==
    /\ pc = "main"
    /\ LET apps == get_available_apps(config, installed, category)
           next == choose_entry(apps, config, installed)
       IN /\ available' = [category |-> category, apps |-> apps]
          /\ options' = apps
          /\ IF next = "return"
             THEN /\ stderr' = stderr \o <<Msg("No options provided", <<>>)>>
                  /\ Exit(0)
                  /\ UNCHANGED collab
             ELSE /\ collab' = collab \o <<next>>
                  /\ pc' = next
                  /\ UNCHANGED <<stderr, exit_code>>
    /\ UNCHANGED <<inputs, config, stdout, target, fzf_result, picked, app_choice,
                   launches, interrupts, wrote_config, menu_input>>

NextChoose ==
    \/ LoadConfig
    \/ \E c \in {"text_editors", "pdf_viewers"} : ChooseCall(c)
    \/ \E k \in 0..Len(options), returncode \in {0, 1} : FzfApp(k, returncode, "setpgrp")
    \/ \E exc \in {"KeyboardInterrupt", "OSError"} : FzfAppRaises(exc)
    \/ \E line \in {<<"1">>, <<"2">>, <<"x">>} : Menu(line, "setpgrp")
    \/ \E exc \in {"KeyboardInterrupt", "EOFError"} : MenuRaises(exc)

SpecChoose == InitChoose /\ [][NextChoose]_vars

----------------------------------------------------------------------------
(* Claims about selection and dispatch (specification Spec) *)

Has(log, m) == \E i \in 1..Len(log) : log[i].msg = m
Prompted == \E i \in 1..Len(collab) : collab[i] \in {"fzf_app", "menu"}

\* C1: whenever a candidate the user chose is dispatched, the program is run
\* attached (synchronously) if and only if the terminal flag of the chosen
\* descriptor is true, and detached otherwise, for every candidate list, also one
\* in which two descriptors share a command.
C1_LaunchModeOfChosen ==
    (picked > 0 /\ launches # <<>>) =>
        launches[1].mode = IF DictGet(options[picked], "terminal", FALSE)
                           THEN "attached" ELSE "detached"

\* C6: when the launch of the chosen program fails, in either launch mode, the
\* failure is reported on the error stream and the run ends with exit status 0.
C6_LaunchFailureEndsDone ==
    (pc = "exited" /\ \E i \in 1..Len(launches) : ~launches[i].started) =>
        (exit_code = 0 /\ Has(stderr, "Error"))

\* C7: an interrupt delivered while the picker, the fuzzy selector of the
\* application choice or the numbered menu is waiting ends the run at once with
\* exit status 130, with nothing launched and no further prompt.
C7_InterruptCancels ==
    (\E i \in 1..Len(interrupts) : interrupts[i] \in {"picking", "fzf_app", "menu"}) =>
        (pc = "exited" /\ exit_code = 130 /\ launches = <<>>)

\* C8: for a file whose class has no installed candidate, or of class other, the run
\* starts the generic opener detached exactly once with the path, prompts for no
\* application, launches nothing else and ends with exit status 0.
C8_GenericOpenerFallback ==
    (pc = "exited" /\ target.kind = "file"
     /\ file_options(config, installed, target.mime) = <<>>) =>
        /\ launches = <<Attempt(<<xdg_open, DD, target.path>>, "detached", TRUE)>>
        /\ ~Prompted
        /\ exit_code = 0

\* C9: when the fuzzy selector of the application choice exits non-zero or with
\* an empty line, choose_app_option returns None without showing the numbered
\* menu, nothing is launched, and the run ends with exit status 0.
C9_SelectorCancelEndsRun ==
    (fzf_result.returncode >= 0
     /\ (fzf_result.returncode # 0 \/ Strip(fzf_result.out) = <<>>)) =>
        /\ pc = "exited"
        /\ app_choice = NoChoice
        /\ \A i \in 1..Len(collab) : collab[i] # "menu"
        /\ launches = <<>>
        /\ exit_code = 0

\* a run in which the selector exited with status 130 and no output for a file
C9_Witness ==
    /\ fzf_result.returncode = 130
    /\ target.kind = "file"
    /\ pc = "exited"
    /\ Has(stdout, "Cancelled.")

\* C10: without --config and without fzf the run ends with exit status 1 and an
\* error message, before any enumeration, classification, selection or launch;
\* with --config it writes the default configuration file and ends without
\* picking or dispatching.
C10_StartupExits ==
    /\ (argv_config \/ ~check_command(installed, fzf)) =>
          /\ collab = <<>>
          /\ launches = <<>>
          /\ target = NoTarget
          /\ options = <<>>
          /\ pc \in {"import", "main", "exited"}
    /\ (pc = "exited" /\ argv_config) => (wrote_config /\ exit_code = 0)
    /\ (pc = "exited" /\ ~argv_config /\ ~check_command(installed, fzf)) =>
          /\ exit_code = 1
          /\ Has(stderr, "Error: fzf is required but not found in PATH")
          /\ ~wrote_config

\* a run with --config on a system without fzf that wrote the file
C10_Witness ==
    pc = "exited" /\ argv_config /\ ~check_command(installed, fzf) /\ wrote_config

\* C11: the candidate list offered for a directory always starts with the
\* pseudo-action cd, whatever is installed (cd itself need not be), and when cd
\* is what choose_app_option returned, the directive cd '<directory>' is on
\* standard output and no program was launched.
C11_CdOfferedFirstAndPrinted ==
    (target.kind = "dir" /\ pc \in {"fzf_app", "menu", "running", "exited"}) =>
        /\ options # <<>>
        /\ options[1] = cd_option
        /\ app_choice = Choice(cd) =>
              /\ launches = <<>>
              /\ \E i \in 1..Len(stdout) : stdout[i] = Msg("cd", target.path)
              /\ pc = "exited"
              /\ exit_code = 0

\* a run that chose cd for a directory on a system where only fzf is installed
C11_Witness ==
    /\ pc = "exited"
    /\ target.kind = "dir"
    /\ installed = {fzf}
    /\ ~check_command(installed, cd)
    /\ Len(options) = 1
    /\ app_choice = Choice(cd)
    /\ stdout = <<Msg("cd", target.path)>>

RECURSIVE Numeral(_)
\* the decimal numeral of a natural number
Numeral(k) ==
    IF k < 10 THEN <<Digits[k + 1]>>
    ELSE Numeral(k \div 10) \o <<Digits[(k % 10) + 1]>>

\* the line, without the surrounding whitespace and leading zeros, is the
\* decimal numeral of k
Denotes(line, k) ==
    LET t == Strip(line)
    IN \E z \in 0..Len(t) :
          /\ \A i \in 1..z : t[i] = "0"
          /\ SubSeq(t, z + 1, Len(t)) = Numeral(k)

\* C12: once the numbered menu has read a line, choose_app_option has returned
\* (it raised nothing): the command of the k-th candidate when the line is an
\* integer k between 1 and the number of candidates, and None for every other
\* line.
C12_MenuReturnsKthOrNone ==
    menu_input.read =>
        LET ks == {k \in 1..Len(options) : Denotes(menu_input.line, k)}
        IN /\ launches = <<>> => ~Has(stderr, "Error")
           /\ app_choice = IF ks = {} THEN NoChoice
                           ELSE Choice(options[CHOOSE k \in ks : TRUE].command)

\* the class of a MIME type by the two rules, each on its own: text when the
\* type starts with an entry of the text list that ends in "/" or equals an
\* entry of the text list; then images, then pdf; "none" is the generic opener
TwoRuleCategory(cfg, mime) ==
    IF \/ \E i \in 1..Len(StrsOf(cfg, "text")) :
             /\ EndsWith(StrsOf(cfg, "text")[i], <<"/">>)
             /\ StartsWith(mime, StrsOf(cfg, "text")[i])
       \/ \E i \in 1..Len(StrsOf(cfg, "text")) : StrsOf(cfg, "text")[i] = mime
    THEN "text_editors"
    ELSE IF \E i \in 1..Len(StrsOf(cfg, "images")) :
               StartsWith(mime, StrsOf(cfg, "images")[i])
    THEN "image_viewers"
    ELSE IF \E i \in 1..Len(StrsOf(cfg, "pdf")) : StrsOf(cfg, "pdf")[i] = mime
    THEN "pdf_viewers"
    ELSE "none"

\* C14: a picked file is handled as its class by the two rules says: the
\* candidates offered are the installed applications of that class, and the
\* generic opener is started when the class is none or has no installed
\* application; an exact entry alone makes a file text.
C14_TwoRuleClassification ==
    target.kind = "file" =>
        LET cat == TwoRuleCategory(config, target.mime)
            apps == IF cat = "none" THEN <<>>
                    ELSE get_available_apps(config, installed, cat)
        IN IF apps = <<>>
           THEN /\ options = <<>>
                /\ launches # <<>>
                /\ launches[1].argv = <<xdg_open, DD, target.path>>
           ELSE options = apps

----------------------------------------------------------------------------
(* Claims about loading and resolution (specification SpecConfig) *)

AppMappings == {env_mappings[i] : i \in 1..4}

\* C2: when an application override variable names an available command, the
\* list resolved for its category starts with the override descriptor, whatever
\* the persisted file holds.
C2_OverrideFirst ==
    \A m \in AppMappings :
        (available.category = m.key /\ EnvSet(env, m.var)
         /\ check_command(installed, env[m.var])) =>
            /\ available.apps # <<>>
            /\ available.apps[1] = [command |-> env[m.var],
                                    label |-> <<"Custom", SP>> \o env[m.var],
                                    terminal |-> FALSE, priority |-> 0]

\* the descriptor list configured for a category (none: the empty list)
ConfiguredApps(category) ==
    IF category \in DOMAIN config.kids.applications.kids
    THEN config.kids.applications.kids[category].apps
    ELSE <<>>

PriorityOf(app) == IF "priority" \in DOMAIN app THEN app.priority ELSE 999

\* in the resolved order entry i of l comes before entry j
Before(l, i, j) ==
    \/ PriorityOf(l[i]) < PriorityOf(l[j])
    \/ PriorityOf(l[i]) = PriorityOf(l[j]) /\ i < j

NeoVimDefault == App(nvim, Word("NeoVim"), TRUE, 1)
VimDefault == App(vim, Word("Vim"), TRUE, 2)

\* C3: get_available_apps returns exactly the configured descriptors whose
\* command is installed, in non-decreasing priority (missing: 999), equal
\* priorities in configured order; with the defaults and only nvim and vim
\* installed, text_editors resolves to [nvim, vim].
C3_ResolvedExactSortedStable ==
    available.category # "" =>
        LET l == ConfiguredApps(available.category)
            r == available.apps
            idx == {i \in 1..Len(l) : l[i].command \in installed}
        IN /\ Len(r) = Cardinality(idx)
           /\ \A n \in 1..Len(r) :
                 \E i \in idx : /\ Cardinality({j \in idx : Before(l, j, i)}) = n - 1
                                /\ r[n] = l[i]
           /\ \A n \in 1..Len(r), m \in 1..Len(r) :
                 n < m => PriorityOf(r[n]) <= PriorityOf(r[m])
           /\ (/\ env = NoEnv
               /\ file_state = "absent"
               /\ available.category = "text_editors"
               /\ installed \cap {nvim, vim, code, gedit, kate} = {nvim, vim})
              => r = <<NeoVimDefault, VimDefault>>

\* a resolved list of two entries out of three configured, in which the third
\* configured entry overtakes the first, which has no priority
C3_Witness ==
    /\ available.category = "text_editors"
    /\ Len(ConfiguredApps("text_editors")) = 3
    /\ Len(available.apps) = 2
    /\ available.apps[1] = ConfiguredApps("text_editors")[3]
    /\ available.apps[2] = ConfiguredApps("text_editors")[1]
    /\ "priority" \notin DOMAIN available.apps[2]

RECURSIVE Paths(_)
\* the key paths of a JSON value
Paths(v) ==
    IF ~IsDict(v) THEN {}
    ELSE UNION {{<<k>>} \cup {<<k>> \o p : p \in Paths(v.kids[k])} : k \in DOMAIN v.kids}

RECURSIVE At(_, _)
\* the value at a key path
At(v, p) == IF p = <<>> THEN v ELSE At(v.kids[p[1]], Tail(p))

Prefixes(p) == {SubSeq(p, 1, n) : n \in 1..(Len(p) - 1)}

\* the defaults with the environment overrides applied
BaseConfig == _apply_env_overrides(_get_default_config, env)

Merged == pc # "import" /\ file_state = "json" /\ IsDict(file_json)

\* C4: after load, at every key path of the file at which the file value or the
\* base value is no mapping, the configuration holds exactly the file's value;
\* where both are mappings they are merged, and a key absent from the file keeps
\* its default-plus-environment value.
C4_FileReplacesNonMappings ==
    Merged =>
        LET base == BaseConfig
            bp == Paths(base)
            fp == Paths(file_json)
            cp == Paths(config)
        IN /\ \A p \in fp :
                 (\/ p \notin bp
                  \/ ~IsDict(At(base, p))
                  \/ ~IsDict(At(file_json, p)))
                 => (p \in cp /\ At(config, p) = At(file_json, p))
           /\ \A p \in bp :
                 (/\ p \notin fp
                  /\ \A q \in Prefixes(p) : q \in fp => IsDict(At(file_json, q)))
                 => (p \in cp /\ At(config, p) = At(base, p))

\* a file listing two text editors: the configuration holds exactly those two,
\* and the PDF viewers, which the file does not list, are the three defaults
C4_Witness ==
    /\ Merged
    /\ <<"applications", "text_editors">> \in Paths(file_json)
    /\ Len(At(file_json, <<"applications", "text_editors">>).apps) = 2
    /\ Len(ConfiguredApps("text_editors")) = 2
    /\ Len(ConfiguredApps("pdf_viewers")) = 3

\* the list of a category with the override of var, if set, ahead of the defaults
DefaultWithOverride(m) ==
    (IF EnvSet(env, m.var)
     THEN <<[command |-> env[m.var], label |-> <<"Custom", SP>> \o env[m.var],
             terminal |-> FALSE, priority |-> 0]>>
     ELSE <<>>) \o _get_default_config.kids.applications.kids[m.key].apps

LoadFailed ==
    \/ file_state \in {"unreadable", "malformed"}
    \/ file_state = "json" /\ ~IsDict(file_json)

\* C5: when the persisted file exists but cannot be read, parsed or merged,
\* loading does not raise, a warning is written to the error stream, and the
\* configuration is the defaults with the environment overrides applied.
C5_FailedLoadFallsBack ==
    (pc # "import" /\ LoadFailed) =>
        /\ pc # "exited"
        /\ Has(stderr, "Warning: Could not load config file")
        /\ DOMAIN config.kids = DOMAIN _get_default_config.kids
        /\ config.kids.file_types = _get_default_config.kids.file_types
        /\ DOMAIN config.kids.applications.kids = Categories
        /\ \A m \in AppMappings : ConfiguredApps(m.key) = DefaultWithOverride(m)
        /\ config.kids.interface.kids.use_fzf_for_app_selection = JBool(TRUE)
        /\ config.kids.interface.kids.preview_enabled = JBool(TRUE)
        /\ config.kids.interface.kids.fzf_height
              = JStr(IF EnvSet(env, "FOPEN_FZF_HEIGHT")
                     THEN env["FOPEN_FZF_HEIGHT"] ELSE Word("90%"))
        /\ config.kids.search.kids.use_fd_if_available = JBool(TRUE)
        /\ config.kids.search.kids.follow_symlinks = JBool(TRUE)
        /\ config.kids.search.kids.excluded_dirs
              = IF EnvSet(env, "FOPEN_EXCLUDE_DIRS")
                THEN JStrs(<<Word(".git"), Word("dist")>>)
                ELSE _get_default_config.kids.search.kids.excluded_dirs

\* a file whose top-level value is a list, loaded with an editor override set
C5_Witness ==
    /\ pc = "main"
    /\ file_state = "json"
    /\ ~IsDict(file_json)
    /\ EnvSet(env, "FOPEN_TEXT_EDITOR")
    /\ Has(stderr, "Warning: Could not load config file")
    /\ Len(ConfiguredApps("text_editors")) = 6

----------------------------------------------------------------------------
(* Claims about choose_app_option (specification SpecChoose) *)

\* C13: when none of the commands configured for the resolved category is
\* installed, get_available_apps returns the empty list, and choose_app_option
\* called on it returns None at once: no fuzzy selector is started, no numbered
\* menu is printed and no input is read.
C13_NoCandidatesNoPrompt ==
    (available.category # ""
     /\ \A i \in 1..Len(ConfiguredApps(available.category)) :
           ~check_command(installed, ConfiguredApps(available.category)[i].command)) =>
        /\ available.apps = <<>>
        /\ options = <<>>
        /\ app_choice = NoChoice
        /\ collab = <<>>
        /\ fzf_result = NoResult
        /\ ~menu_input.read
        /\ pc = "exited"

\* text_editors resolved from a file that configures two editors, neither of
\* them installed: choose_app_option has said so and returned
C13_Witness ==
    /\ available.category = "text_editors"
    /\ Len(ConfiguredApps("text_editors")) = 2
    /\ installed = {fzf}
    /\ available.apps = <<>>
    /\ Has(stderr, "No options provided")
    /\ pc = "exited"

\* C15: when the fuzzy selector returns the line built for a candidate,
\* choose_app_option returns exactly the command of that candidate, so the
\* lookup by command finds a descriptor, whatever the command and the label
\* contain.
C15_SelectorRoundTrip ==
    (fzf_result.returncode = 0 /\ picked > 0) =>
        /\ app_choice = Choice(options[picked].command)
        /\ find_app(options, app_choice.cmd) # 0

====
